---- MODULE Spec2Model ----
(***************************************************************************)
(* The two desktop applications of the repository as state machines.       *)
(*                                                                         *)
(*   data_analysis_tool.py  the static viewer: a registry of loaded        *)
(*       arrays, a checkable list of dataset names, a plot-type selector,  *)
(*       the rendered chart and statistics table, and the report export.   *)
(*       Its handlers all run on the UI thread, one at a time.             *)
(*                                                                         *)
(*   main.py  the real-time tool: the UI thread (toggle_plotting) and the  *)
(*       producer thread (PlotWorker.run) interleave statement by          *)
(*       statement.                                                        *)
(*                                                                         *)
(* Spec is the viewer, SpecRT the real-time tool; both start from Init.    *)
(***************************************************************************)
EXTENDS Integers, Sequences, FiniteSets, TLC

\* ---------------------------------------------------------------- bounds
MaxItems == 2       \* rows the checkable list may hold
MaxWorkers == 2     \* PlotWorker objects the UI may create
MaxSamples == 2     \* samples one worker may append
MaxSaves == 2       \* np.save calls

\* ------------------------------------------------------- the input space
\* Base names and directories of the files the user can pick.
Names == {"a.npy", "b.npy"}
Dirs == {"d1", "d2"}

\* What a file holds: an array of (x, y) pairs ("c1", "c2": two different
\* ones), an array np.load reads but whose rows are not pairs ("unpaired":
\* a 1-D array, rows of three values, no rows), or bytes np.load rejects
\* ("corrupt").
PairedContents == {"c1", "c2"}
Contents == PairedContents \cup {"unpaired"}
FileContents == Contents \cup {"corrupt"}

\* The entries of the plot-type selector; the first one is current at start.
NoPlot == "Select Plot"
PlotTypes == {"line", "hist", "fft", "regression"}
SelectorEntries == {NoPlot} \cup PlotTypes

\* ------------------------------------------------------------- the state
VARIABLES
    datasets,          \* MainWindow.datasets: name -> loaded array
    dataset_selector,  \* the QListWidget rows: [text, checked]
    plot_type,         \* current text of plot_type_selector
    canvas,            \* what PlotCanvas shows
    stats_table,       \* the rows of stats_table
    err,               \* what the last load, click or selection raised, or "none"
    last_loaded,       \* history: name -> the array np.load returned last for it
    temp_dir,          \* the directory the last save_pdf made: "absent" or "left"
    dest               \* the file at the path chosen in the save dialog

toolVars == <<datasets, dataset_selector, plot_type, canvas, stats_table, err,
              last_loaded, temp_dir, dest>>

\* main.py
VARIABLES
    plot_worker,       \* MainWindow.plot_worker: 0 is None, n the n-th PlotWorker made
    params,            \* its amplitude, offset and frequency, in tenths
    running,           \* its running flag
    data,              \* the number of samples in its data list
    pc,                \* where its thread is: "none", "started", "test", "body",
                       \* "check", "sleep", "finished"
    ui,                \* the UI thread: "idle", or "stop_save" inside stop()
    saves,             \* np.save calls made so far
    click,             \* history: flips at every toggle_plotting call
    click_numeric,     \* history: all three texts of the last call were numbers
    ui_result,         \* history: how the last toggle_plotting call went
    stop_calls,        \* history: stop() calls on the current worker
    stop_saves,        \* history: save_data calls made by stop() on it
    late_saves,        \* history: interval saves of its thread after a stop() call
    late_samples       \* history: samples its thread appended after a stop() call

workerVars == <<plot_worker, params, running, data, pc, ui, saves, stop_calls,
                stop_saves, late_saves, late_samples>>

rtVars == <<workerVars, click, click_numeric, ui_result>>

vars == <<toolVars, rtVars>>

\* ------------------------------------------------------ helper operators
\* os.path.basename of a path given by its components.
basename(path) == path[Len(path)]

\* A registry that keeps the array a name was first loaded with.
StoreDatasetOnce(ds, short_name, array) ==
    [n \in (DOMAIN ds) \cup {short_name} |->
        IF n \in DOMAIN ds THEN ds[n] ELSE array]

\* self.datasets[short_name] = data
StoreDataset(ds, short_name, array) ==
    [n \in (DOMAIN ds) \cup {short_name} |-> IF n = short_name THEN array ELSE ds[n]]

\* QListWidgetItem(short_name) with check state Unchecked.
NewItem(short_name) == [text |-> short_name, checked |-> FALSE]

\* The for-loop of load_files from file i on. An item is added to the list
\* before np.load is tried; np.load raising ends the loop and the handler.
RECURSIVE LoadLoop(_, _, _)
LoadLoop(files, i, st) ==
    IF i > Len(files) THEN st
    ELSE LET short_name == basename(files[i].path)
             items == Append(st.sel, NewItem(short_name))
         IN  IF files[i].content = "corrupt"
             THEN [st EXCEPT !.sel = items, !.raised = TRUE]
             ELSE LoadLoop(files, i + 1,
                    [sel |-> items,
                     ds |-> StoreDataset(st.ds, short_name, files[i].content),
                     raised |-> FALSE])

\* The loop at the head of update_plot: the checked rows whose text is a
\* key of the registry, in list order.
RECURSIVE SelectedDatasets(_, _)
SelectedDatasets(sel, ds) ==
    IF sel = <<>> THEN <<>>
    ELSE LET item == Head(sel)
             rest == SelectedDatasets(Tail(sel), ds)
         IN  IF item.checked /\ item.text \in DOMAIN ds
             THEN <<[name |-> item.text, data |-> ds[item.text]]>> \o rest
             ELSE rest

\* x_data, y_data = zip(*data) raises when the rows of data are not pairs.
UnpackRaises(gathered) == \E i \in 1..Len(gathered) : gathered[i].data = "unpaired"

x_label_of(pt) == IF pt # "fft" THEN "Time" ELSE "Frequency"
y_label_of(pt) == IF pt # "hist" THEN "Amplitude" ELSE "Frequency"

\* PlotCanvas.plot: the axes are cleared and every dataset is drawn anew.
PlotCanvas_plot(gathered, pt) ==
    [plot_type |-> pt, series |-> gathered,
     x_label |-> x_label_of(pt), y_label |-> y_label_of(pt)]

\* update_stats_table: one row per gathered dataset; the three numbers of a
\* row are functions of the dataset's y values.
update_stats_table(gathered) ==
    [i \in 1..Len(gathered) |-> [name |-> gathered[i].name, stats_of |-> gathered[i].data]]

BlankCanvas == [plot_type |-> "", series |-> <<>>, x_label |-> "", y_label |-> ""]

\* update_plot on the list sel, the registry ds and the selector text pt,
\* with cv and tb on screen: what is on screen afterwards, and the exception
\* that escaped. The datasets are gathered before the plot type is looked at.
update_plot(sel, ds, pt, cv, tb) ==
    LET gathered == SelectedDatasets(sel, ds)
    IN  IF UnpackRaises(gathered)
        THEN [canvas |-> cv, stats_table |-> tb, err |-> "unpack"]
        ELSE IF pt # NoPlot
        THEN [canvas |-> PlotCanvas_plot(gathered, pt),
              stats_table |-> update_stats_table(gathered), err |-> "none"]
        ELSE [canvas |-> cv, stats_table |-> tb, err |-> "none"]

\* --------------------------------------------------------- initial state
Init ==
    /\ datasets = <<>>
    /\ dataset_selector = <<>>
    /\ plot_type = NoPlot
    /\ canvas = BlankCanvas
    /\ stats_table = <<>>
    /\ err = "none"
    /\ last_loaded = <<>>
    /\ temp_dir = "absent"
    /\ dest = "absent"
    /\ plot_worker = 0
    /\ params = <<0, 0, 0>>
    /\ running = FALSE
    /\ data = 0
    /\ pc = "none"
    /\ ui = "idle"
    /\ saves = 0
    /\ click = FALSE
    /\ click_numeric = TRUE
    /\ ui_result = "none"
    /\ stop_calls = 0
    /\ stop_saves = 0
    /\ late_saves = 0
    /\ late_samples = 0

\* ------------------------------------------------------------- handlers
\* The batches a file dialog can return: files of one directory, each given
\* with what it holds when it is read.
RECURSIVE FileLists(_, _)
FileLists(dir, names) ==
    {<<>>} \cup
    UNION {{<<[path |-> <<dir, n>>, content |-> c]>> \o rest :
               c \in FileContents, rest \in FileLists(dir, names \ {n})} : n \in names}

Batches == UNION {FileLists(d, Names) : d \in Dirs}

\* History: the files of a batch np.load returned an array for (those before
\* the first corrupt one), and the array read last for a name among them.
RECURSIVE ReadCount(_)
ReadCount(batch) ==
    IF batch = <<>> \/ Head(batch).content = "corrupt" THEN 0
    ELSE 1 + ReadCount(Tail(batch))

LastRead(batch, prev) ==
    LET k == ReadCount(batch)
        read == {basename(batch[i].path) : i \in 1..k}
        last(n) == CHOOSE i \in 1..k :
                     /\ basename(batch[i].path) = n
                     /\ \A j \in 1..k : basename(batch[j].path) = n => j <= i
    IN  [n \in (DOMAIN prev) \cup read |->
            IF n \in read THEN batch[last(n)].content ELSE prev[n]]

\* load_files: the dialog returns batch; every file gets a list row and is
\* read; update_plot runs once after the loop, unless np.load raised.
load_files(batch) ==
    /\ Len(dataset_selector) + Len(batch) <= MaxItems
    /\ LET done == LoadLoop(batch, 1, [sel |-> dataset_selector, ds |-> datasets,
                                       raised |-> FALSE])
           view == update_plot(done.sel, done.ds, plot_type, canvas, stats_table)
       IN  /\ dataset_selector' = done.sel
           /\ datasets' = done.ds
           /\ IF done.raised
              THEN /\ err' = "np.load"
                   /\ UNCHANGED <<canvas, stats_table>>
              ELSE /\ err' = view.err
                   /\ canvas' = view.canvas
                   /\ stats_table' = view.stats_table
    /\ last_loaded' = LastRead(batch, last_loaded)
    /\ UNCHANGED <<plot_type, temp_dir, dest, rtVars>>

\* The user clicks the check box of row i: itemChanged runs update_plot.
toggle_item(i) ==
    /\ i \in 1..Len(dataset_selector)
    /\ LET sel == [dataset_selector EXCEPT ![i].checked = ~@]
           view == update_plot(sel, datasets, plot_type, canvas, stats_table)
       IN  /\ dataset_selector' = sel
           /\ err' = view.err
           /\ canvas' = view.canvas
           /\ stats_table' = view.stats_table
    /\ UNCHANGED <<datasets, plot_type, last_loaded, temp_dir, dest, rtVars>>

\* The user picks another entry of the plot-type selector:
\* currentIndexChanged runs update_plot.
select_plot_type(pt) ==
    /\ pt # plot_type
    /\ LET view == update_plot(dataset_selector, datasets, pt, canvas, stats_table)
       IN  /\ plot_type' = pt
           /\ err' = view.err
           /\ canvas' = view.canvas
           /\ stats_table' = view.stats_table
    /\ UNCHANGED <<datasets, dataset_selector, last_loaded, temp_dir, dest, rtVars>>

\* A gathering loop that takes every row of the list whose text is a key of
\* the registry, checked or not.
RECURSIVE ReportDatasetsAll(_, _)
ReportDatasetsAll(sel, ds) ==
    IF sel = <<>> THEN <<>>
    ELSE LET item == Head(sel)
             rest == ReportDatasetsAll(Tail(sel), ds)
         IN  IF item.text \in DOMAIN ds
             THEN <<[name |-> item.text, data |-> ds[item.text]]>> \o rest
             ELSE rest

\* The loop at the head of save_pdf's try block ("Gather all selected
\* datasets"): the checked rows whose text is a key of the registry.
RECURSIVE ReportDatasets(_, _)
ReportDatasets(sel, ds) ==
    IF sel = <<>> THEN <<>>
    ELSE LET item == Head(sel)
             rest == ReportDatasets(Tail(sel), ds)
         IN  IF item.checked /\ item.text \in DOMAIN ds
             THEN <<[name |-> item.text, data |-> ds[item.text]]>> \o rest
             ELSE rest

\* plot_types of save_pdf, in the order of its loop.
ReportPlotTypes == <<"line", "hist", "fft", "regression">>

\* The pages save_pdf hands to pdf.savefig: the statistics summary, then one
\* combined chart per plot type, every page drawn from the same gathered list.
ReportPages(gathered) ==
    <<[page |-> "statistics", entries |-> gathered]>> \o
    [k \in 1..Len(ReportPlotTypes) |->
        [page |-> ReportPlotTypes[k], entries |-> gathered]]

\* What the environment does to one run of save_pdf:
\*   "open_fails"    PdfPages cannot open its file in the new directory
\*   "page_fails"    a savefig raises (at, 1..5: the page)
\*   "cancel"        the save dialog returns no path
\*   "move_ok"       shutil.move puts the file at the chosen path
\*   "move_fails"    shutil.move raises and the chosen path is untouched
\*   "move_partial"  shutil.move copies to another file system and raises midway
SaveInputs ==
    {[env |-> e, at |-> 0] : e \in {"open_fails", "cancel", "move_ok", "move_fails",
                                    "move_partial"}}
    \cup {[env |-> "page_fails", at |-> k] : k \in 1..5}

\* save_pdf up to its return or raise: the pages written to the PdfPages
\* object, whether the finally clause ran, what is at the chosen path, and
\* whether an exception escaped. mkdtemp and PdfPages(...) run before the try
\* block, everything else inside it.
save_pdf(sel, ds, in, at_dest) ==
    LET gathered == ReportDatasets(sel, ds)
        pages == ReportPages(gathered)
    IN  IF in.env = "open_fails"
        THEN [pages |-> <<>>, cleaned |-> FALSE, dest |-> at_dest, raised |-> TRUE]
        ELSE IF UnpackRaises(gathered)
        THEN [pages |-> <<>>, cleaned |-> TRUE, dest |-> at_dest, raised |-> TRUE]
        ELSE IF in.env = "page_fails"
        THEN [pages |-> SubSeq(pages, 1, in.at - 1), cleaned |-> TRUE,
              dest |-> at_dest, raised |-> TRUE]
        ELSE IF in.env = "cancel"
        THEN [pages |-> pages, cleaned |-> TRUE, dest |-> at_dest, raised |-> FALSE]
        ELSE IF in.env = "move_ok"
        THEN [pages |-> pages, cleaned |-> TRUE, dest |-> "report", raised |-> FALSE]
        ELSE IF in.env = "move_partial"
        THEN [pages |-> pages, cleaned |-> TRUE, dest |-> "partial", raised |-> TRUE]
        ELSE [pages |-> pages, cleaned |-> TRUE, dest |-> at_dest, raised |-> TRUE]

\* The user clicks Save Report.
save_pdf_clicked(in) ==
    /\ LET out == save_pdf(dataset_selector, datasets, in, dest)
       IN  /\ temp_dir' = IF out.cleaned THEN "absent" ELSE "left"
           /\ dest' = out.dest
    /\ UNCHANGED <<datasets, dataset_selector, plot_type, canvas, stats_table, err,
                   last_loaded, rtVars>>

Next ==
    \/ \E batch \in Batches : load_files(batch)
    \/ \E i \in 1..MaxItems : toggle_item(i)
    \/ \E pt \in SelectorEntries : select_plot_type(pt)
    \/ \E in \in SaveInputs : save_pdf_clicked(in)

Spec == Init /\ [][Next]_vars
\* ------------------------------------------------------------- main.py
\* The texts the user can leave in an input field, as character sequences.
Digits == {"0", "1", "2", "5"}
Texts == {<<"2">>, <<"0", ".", "5">>, <<>>, <<"1", "x">>}

DigitValue(c) == CASE c = "0" -> 0 [] c = "1" -> 1 [] c = "2" -> 2 [] OTHER -> 5

\* float(text) on an unsigned decimal: the value in tenths (digits beyond the
\* first decimal are below the model's resolution), or a ValueError.
RECURSIVE float_scan(_, _, _, _, _)
float_scan(t, i, seen_dot, n_digits, tenths) ==
    IF i > Len(t)
    THEN [ok |-> n_digits > 0, tenths |-> tenths]
    ELSE IF t[i] \in Digits
    THEN IF ~seen_dot
         THEN float_scan(t, i + 1, FALSE, n_digits + 1,
                         (tenths \div 10) * 100 + DigitValue(t[i]) * 10)
         ELSE float_scan(t, i + 1, TRUE, n_digits + 1,
                         IF i > 1 /\ t[i - 1] = "." THEN tenths + DigitValue(t[i])
                         ELSE tenths)
    ELSE IF t[i] = "." /\ ~seen_dot
    THEN float_scan(t, i + 1, TRUE, n_digits, tenths)
    ELSE [ok |-> FALSE, tenths |-> 0]

\* A conversion that reads a text it cannot parse as zero.
float_or_zero(t) == [ok |-> TRUE, tenths |-> float_scan(t, 1, FALSE, 0, 0).tenths]

float(t) == float_scan(t, 1, FALSE, 0, 0)

\* The texts float() accepts, among texts of digits, "." and letters: at
\* least one digit, nothing but digits and at most one ".".
IsNumberText(t) ==
    /\ \E i \in 1..Len(t) : t[i] \in Digits
    /\ \A i \in 1..Len(t) : t[i] \in Digits \cup {"."}
    /\ Cardinality({i \in 1..Len(t) : t[i] = "."}) <= 1

\* The try block of toggle_plotting: the three conversions, the first
\* ValueError ending them.
parse_inputs(a, o, f) ==
    LET amplitude == float(a)
        offset == float(o)
        frequency == float(f)
    IN  [ok |-> amplitude.ok /\ offset.ok /\ frequency.ok,
         values |-> <<amplitude.tenths, offset.tenths, frequency.tenths>>]

\* QThread.isRunning(): from start() until run() has returned.
isRunning == pc \notin {"none", "finished"}

\* toggle_plotting with the texts a, o, f in the three fields. On a
\* ValueError the handler leaves through its except clause, which calls
\* tkinter's messagebox.warning; that name does not exist, so the handler
\* ends with an AttributeError instead of a dialog. Otherwise it makes and
\* starts a new worker, or enters stop() on the running one.
toggle_plotting(a, o, f) ==
    /\ ui = "idle"
    /\ click' = ~click
    /\ click_numeric' = (\A t \in {a, o, f} : IsNumberText(t))
    /\ LET parsed == parse_inputs(a, o, f)
       IN  IF ~parsed.ok
           THEN /\ ui_result' = "AttributeError"
                /\ UNCHANGED workerVars
           ELSE IF plot_worker = 0 \/ ~isRunning
           THEN /\ plot_worker < MaxWorkers
                /\ plot_worker' = plot_worker + 1
                /\ params' = parsed.values
                /\ running' = FALSE
                /\ data' = 0
                /\ pc' = "started"
                /\ ui_result' = "started"
                /\ stop_calls' = 0
                /\ stop_saves' = 0
                /\ late_saves' = 0
                /\ late_samples' = 0
                /\ UNCHANGED <<ui, saves>>
           ELSE /\ saves < MaxSaves
                /\ running' = FALSE
                /\ ui' = "stop_save"
                /\ ui_result' = "stopped"
                /\ stop_calls' = stop_calls + 1
                /\ UNCHANGED <<plot_worker, params, data, pc, saves, stop_saves,
                               late_saves, late_samples>>
    /\ UNCHANGED toolVars

\* The second statement of stop(): save_data() on the UI thread.
stop_save_data ==
    /\ ui = "stop_save"
    /\ ui' = "idle"
    /\ saves' = saves + 1
    /\ stop_saves' = stop_saves + 1
    /\ UNCHANGED <<plot_worker, params, running, data, pc, stop_calls, late_saves,
                   late_samples, click, click_numeric, ui_result, toolVars>>

\* run(), first statements: self.running = True and the two time stamps.
run_enter ==
    /\ pc = "started"
    /\ running' = TRUE
    /\ pc' = "test"
    /\ UNCHANGED <<plot_worker, params, data, ui, saves, stop_calls, stop_saves,
                   late_saves, late_samples, click, click_numeric, ui_result, toolVars>>

\* while self.running
run_test ==
    /\ pc = "test"
    /\ pc' = IF running THEN "body" ELSE "finished"
    /\ UNCHANGED <<plot_worker, params, running, data, ui, saves, stop_calls,
                   stop_saves, late_saves, late_samples, click, click_numeric,
                   ui_result, toolVars>>

\* The sample is appended and the series emitted. (What the plot canvas
\* draws from the emitted series is not part of this model.)
run_append ==
    /\ pc = "body"
    /\ data < MaxSamples
    /\ data' = data + 1
    /\ late_samples' = IF stop_calls > 0 THEN late_samples + 1 ELSE late_samples
    /\ pc' = "check"
    /\ UNCHANGED <<plot_worker, params, running, ui, saves, stop_calls, stop_saves,
                   late_saves, click, click_numeric, ui_result, toolVars>>

\* if time.time() - last_save_time >= 60: save_data(). The wall clock is the
\* environment's: elapsed says whether the interval has passed.
run_interval(elapsed) ==
    /\ pc = "check"
    /\ IF elapsed
       THEN /\ saves + (IF ui = "stop_save" THEN 1 ELSE 0) < MaxSaves
            /\ saves' = saves + 1
            /\ late_saves' = IF stop_calls > 0 THEN late_saves + 1 ELSE late_saves
       ELSE UNCHANGED <<saves, late_saves>>
    /\ pc' = "sleep"
    /\ UNCHANGED <<plot_worker, params, running, data, ui, stop_calls, stop_saves,
                   late_samples, click, click_numeric, ui_result, toolVars>>

\* time.sleep(0.1), then back to the loop test.
run_sleep ==
    /\ pc = "sleep"
    /\ pc' = "test"
    /\ UNCHANGED <<plot_worker, params, running, data, ui, saves, stop_calls,
                   stop_saves, late_saves, late_samples, click, click_numeric,
                   ui_result, toolVars>>

NextRT ==
    \/ \E a, o, f \in Texts : toggle_plotting(a, o, f)
    \/ stop_save_data
    \/ run_enter
    \/ run_test
    \/ run_append
    \/ \E elapsed \in BOOLEAN : run_interval(elapsed)
    \/ run_sleep

SpecRT == Init /\ [][NextRT]_vars

\* ================================================================ claims
\* The names of the checked rows, and the rows that are checked and whose
\* text is a key of the registry.
CheckedNames ==
    {dataset_selector[i].text : i \in {j \in 1..Len(dataset_selector) :
                                          dataset_selector[j].checked}}

CheckedRowsInRegistry ==
    {i \in 1..Len(dataset_selector) :
        dataset_selector[i].checked /\ dataset_selector[i].text \in DOMAIN datasets}

\* A step of one of the three handlers that end in update_plot.
ViewerTrigger ==
    \/ \E batch \in Batches : load_files(batch)
    \/ \E i \in 1..MaxItems : toggle_item(i)
    \/ \E pt \in SelectorEntries : select_plot_type(pt)

\* C1: the statistics table has one row per distinct dataset name that is
\* both checked and in the registry. Stated for the states in which the
\* table has just been recomputed: a plot type is selected and the last
\* handler ran to its end.
C1_RowsAreSelectedNames ==
    (plot_type # NoPlot /\ err = "none")
        => Len(stats_table) = Cardinality(CheckedNames \cap DOMAIN datasets)

\* The pages one run of save_pdf writes in the current state.
PagesWritten(in) == save_pdf(dataset_selector, datasets, in, dest).pages

PageNames(page) == {page.entries[k].name : k \in 1..Len(page.entries)}

\* The environments in which nothing outside save_pdf's own code stops the
\* pages from being built.
PagesNotInterrupted == {in \in SaveInputs : in.env \notin {"open_fails", "page_fails"}}

\* C2 as written: whatever is checked and whatever plot type is selected,
\* the statistics page and the four plot pages of the report show every
\* dataset of the registry.
C2_ExportCoversRegistry ==
    \A in \in PagesNotInterrupted :
        /\ Len(PagesWritten(in)) = 5
        /\ \A k \in 1..Len(PagesWritten(in)) :
              PageNames(PagesWritten(in)[k]) = DOMAIN datasets

\* C2 as amended: every page save_pdf writes shows the checked rows whose
\* text is a key of the registry, one entry per such row with the array the
\* registry holds, whatever plot type is selected; all five pages are
\* written unless the environment interrupts or a checked array has rows
\* that are not pairs, and then no page shows anything else.
C2_ExportCoversChecked ==
    \A in \in SaveInputs :
        LET pages == PagesWritten(in)
        IN  /\ \A k \in 1..Len(pages) :
                  /\ PageNames(pages[k]) = CheckedNames \cap DOMAIN datasets
                  /\ Len(pages[k].entries) = Cardinality(CheckedRowsInRegistry)
                  /\ \A e \in 1..Len(pages[k].entries) :
                        pages[k].entries[e].data = datasets[pages[k].entries[e].name]
            /\ (in \in PagesNotInterrupted
                  /\ \A i \in CheckedRowsInRegistry :
                        datasets[dataset_selector[i].text] # "unpaired")
               => [k \in 1..Len(pages) |-> pages[k].page]
                    = <<"statistics", "line", "hist", "fft", "regression">>

\* C2 witness: a report has been written while one loaded dataset was
\* checked and another was not, with no plot type selected.
C2_Witness ==
    /\ dest = "report"
    /\ temp_dir = "absent"
    /\ plot_type = NoPlot
    /\ CheckedNames \cap DOMAIN datasets # {}
    /\ (DOMAIN datasets) \ CheckedNames # {}
    /\ \A i \in CheckedRowsInRegistry : datasets[dataset_selector[i].text] # "unpaired"

\* C3: however save_pdf ends, the temporary directory it made is gone, and
\* no partly written report is at the chosen path.
C3_ExportLeavesNothing ==
    /\ temp_dir # "left"
    /\ dest # "partial"

\* C5: when one file of a batch cannot be decoded, every other file of the
\* batch gets its registry entry and its list row, and the file that failed
\* gets neither.
C5_LoadFailureIsPerFile ==
    [][\A batch \in Batches :
          \A bad \in 1..Len(batch) :
              (/\ load_files(batch)
               /\ Len(batch) >= 2
               /\ batch[bad].content = "corrupt"
               /\ \A i \in 1..Len(batch) : i # bad => batch[i].content \in PairedContents)
              => /\ \A i \in 1..Len(batch) : i # bad =>
                       /\ basename(batch[i].path) \in DOMAIN datasets'
                       /\ datasets'[basename(batch[i].path)] = batch[i].content
                 /\ Len(dataset_selector') = Len(dataset_selector) + Len(batch) - 1
                 /\ \A r \in (Len(dataset_selector) + 1)..Len(dataset_selector') :
                       dataset_selector'[r].text # basename(batch[bad].path)
      ]_vars

\* C6: while no plot type is selected, a load, a check-box click or a
\* selector change leaves the chart and the table as they were, and the
\* recomputation raises nothing.
C6_NoPlotIsNoOp ==
    [][(ViewerTrigger /\ plot_type' = NoPlot)
          => /\ canvas' = canvas
             /\ stats_table' = stats_table
             /\ err' # "unpack"
      ]_vars

\* C7: whenever a plot type is selected, the chart and the table on screen
\* are the ones computed from the current registry, check states and plot
\* type, after handlers that ran to their end and after handlers that raised.
C7_ViewIsCurrent ==
    plot_type # NoPlot
        => LET gathered == SelectedDatasets(dataset_selector, datasets)
           IN  /\ canvas = PlotCanvas_plot(gathered, plot_type)
               /\ stats_table = update_stats_table(gathered)

\* C9: the registry holds exactly the names np.load has returned an array
\* for, each with the array returned last for it.
C9_RegistryHoldsLastLoad ==
    /\ DOMAIN datasets = DOMAIN last_loaded
    /\ \A n \in DOMAIN datasets : datasets[n] = last_loaded[n]

\* C9 witness: the chart still shows the array a name was loaded with first,
\* the registry holds another one loaded later under that name, and the
\* list has a row for each of the two loads.
C9_Witness ==
    \E k \in 1..Len(canvas.series) :
        LET n == canvas.series[k].name
        IN  /\ canvas.series[k].data \in PairedContents
            /\ datasets[n] \in PairedContents
            /\ datasets[n] # canvas.series[k].data
            /\ last_loaded[n] = datasets[n]
            /\ Cardinality({i \in 1..Len(dataset_selector) :
                               dataset_selector[i].text = n}) >= 2

\* C4: a producer is stopped with exactly one save made by the stop, and its
\* thread makes no interval save after the stop.
C4_OneSavePerStop ==
    /\ (stop_calls > 0 /\ ui = "idle") => stop_saves = 1
    /\ late_saves = 0

\* C8: a toggle_plotting call with a text that is not a number changes
\* nothing: the worker object, its parameters, flag, data and thread are as
\* before, stop() is not entered and nothing is saved.
C8_InvalidInputChangesNothing ==
    [][(click' # click /\ ~click_numeric') => UNCHANGED workerVars]_vars

\* C8 witness: the last call had a text that is not a number and ended in
\* its except clause while a producer was running with samples gathered.
C8_Witness ==
    /\ ~click_numeric
    /\ ui_result = "AttributeError"
    /\ plot_worker > 0
    /\ pc \in {"test", "body", "check", "sleep"}
    /\ running
    /\ data > 0

\* C10: once stop() has been called, the producer's thread appends at most
\* one more sample.
C10_StopBoundsProducer == late_samples <= 1
====
